---- MODULE Spec2Model ----
(***************************************************************************)
(* Model of the canvas / timeline synchronisation hook useTwickCanvas      *)
(* (packages/live-player/src/components/live-player.tsx, lines 360-886)    *)
(* and of the PlayerManager effect that builds the canvas.                 *)
(*                                                                         *)
(* Numbers that the code divides or multiplies (scale factors, positions,  *)
(* sizes) are exact rationals <<n, d>> with d > 0 in lowest terms; the     *)
(* only rounding is the one the code performs itself (toFixed(2)).         *)
(***************************************************************************)
EXTENDS Integers, Sequences, FiniteSets, TLC

\* ------------------------------------------------------------------ bounds
MaxCalls    == 2   \* setCanvasElements calls per behaviour
MaxBuilds   == 3   \* buildCanvas / onVideoSizeChange deliveries (SpecCanvas)
MaxGestures == 2   \* pointer-interaction completion events (Spec)
MaxReady    == 2   \* player-ready events per LivePlayer (SpecPlayer)
MaxPresses  == 3   \* presses of the zoom buttons (SpecZoom)
MaxUpdates  == 3   \* time updates and duration changes (SpecTime)

\* -------------------------------------------------------------- rationals
RECURSIVE GCD(_, _)
GCD(a, b) == IF b = 0 THEN a ELSE GCD(b, a % b)

Abs(n) == IF n < 0 THEN -n ELSE n

\* a division by zero gives what it gives in JS: <<1, 0>> and <<-1, 0>> are
\* +Infinity and -Infinity, <<0, 0>> is NaN
RNorm(n, d) ==
  IF d = 0
  THEN << IF n > 0 THEN 1 ELSE IF n < 0 THEN -1 ELSE 0, 0 >>
  ELSE LET g == GCD(Abs(n), Abs(d))
           s == IF d < 0 THEN -1 ELSE 1
       IN  <<(s * n) \div g, (s * d) \div g>>

R(n) == <<n, 1>>
RMul(p, q) == RNorm(p[1] * q[1], p[2] * q[2])
RDiv(p, q) == RNorm(p[1] * q[2], p[2] * q[1])
RSub(p, q) == RNorm(p[1] * q[2] - q[1] * p[2], p[2] * q[2])
RAdd(p, q) == RNorm(p[1] * q[2] + q[1] * p[2], p[2] * q[2])

\* variant: the value is used without rounding
ToFixed2Unrounded(p) == p

\* Number(v.toFixed(2)) for v >= 0: the nearest multiple of 1/100, halves up.
ToFixed2(p) == RNorm((200 * p[1] + p[2]) \div (2 * p[2]), 100)

\* ------------------------------------------------- optional values of JS
\* undefined / null is the empty sequence, a present value v is <<v>>.
Nothing == <<>>
Some(v) == <<v>>
IsSome(o) == o # <<>>
Get(o) == o[1]

\* ---------------------------------------------------------- element pool
ElementIds == {"v1", "i1", "i2", "r1", "c1", "t1", "cap1"}

Props(x, y, w, h, r) ==
  [x |-> R(x), y |-> R(y), rotation |-> 0,
   width |-> R(w), height |-> R(h), radius |-> R(r)]

\* a frame effect; the top-level framePosition / frameSize are fields the
\* element data never has (absent = Nothing)
FrameEffect(fid, from, to, fw, fh) ==
  [id |-> fid, s |-> from, e |-> to,
   props |-> [framePosition |-> [x |-> R(0), y |-> R(0)],
              frameSize |-> <<R(fw), R(fh)>>],
   framePosition |-> Nothing, frameSize |-> Nothing]

\* a scene video with a frame and two time-scoped frame effects
ElemV1 ==
  [id |-> "v1", type |-> "video", timelineType |-> "scene",
   props |-> Props(0, 0, 400, 300, 0),
   frame |-> Some([size |-> <<R(400), R(300)>>, x |-> R(0), y |-> R(0),
                   rotation |-> 0]),
   frameEffects |-> << FrameEffect("fe1", 0, 2, 200, 100),
                       FrameEffect("fe2", 2, 4, 100, 100) >>]

\* an overlay image without a frame: rendered as a plain image object
ElemI1 ==
  [id |-> "i1", type |-> "image", timelineType |-> "overlay",
   props |-> Props(10, 10, 120, 80, 0),
   frame |-> Nothing, frameEffects |-> << >>]

\* an overlay image with a frame and a frame effect
ElemI2 ==
  [id |-> "i2", type |-> "image", timelineType |-> "overlay",
   props |-> Props(10, 10, 120, 80, 0),
   frame |-> Some([size |-> <<R(120), R(80)>>, x |-> R(10), y |-> R(10),
                   rotation |-> 0]),
   frameEffects |-> << FrameEffect("fe3", 0, 2, 60, 40) >>]

ElemR1 ==
  [id |-> "r1", type |-> "rect", timelineType |-> "overlay",
   props |-> Props(0, 0, 100, 50, 0),
   frame |-> Nothing, frameEffects |-> << >>]

ElemC1 ==
  [id |-> "c1", type |-> "circle", timelineType |-> "overlay",
   props |-> Props(0, 0, 20, 20, 10),
   frame |-> Nothing, frameEffects |-> << >>]

ElemT1 ==
  [id |-> "t1", type |-> "text", timelineType |-> "overlay",
   props |-> Props(0, 0, 300, 40, 0),
   frame |-> Nothing, frameEffects |-> << >>]

ElemCap1 ==
  [id |-> "cap1", type |-> "caption", timelineType |-> "overlay",
   props |-> Props(0, 200, 300, 40, 0),
   frame |-> Nothing, frameEffects |-> << >>]

\* ------------------------------------------------------------ input sets
VideoSizes  == { [width |-> 1920, height |-> 1080],
                 [width |-> 1280, height |-> 720] }
CanvasSizes == { [width |-> 960, height |-> 540],
                 [width |-> 640, height |-> 360] }
FrameScales == { R(1), <<9, 10>> }
\* a container that is not laid out reports a zero clientWidth / clientHeight
BadCanvasSizes == { [width |-> 0, height |-> 0] }
BackgroundColors == { "#000000", "" }

\* ------------------------------------------------------------------ state
VARIABLES
  twickCanvas,         \* the current fabric canvas: 0 = null, else its number
  canvasMetadataRef,   \* canvasMetadataRef.current
  videoSizeRef,        \* videoSizeRef.current
  canvasResolutionRef, \* canvasResolutionRef.current
  elementMap,          \* elementMap.current: id -> optional element snapshot
  elementFrameMap,     \* elementFrameMap.current: id -> optional frame effect
  captionPropsRef,     \* captionPropsRef.current (optional)
  objects,             \* visual objects of the current canvas, back to front
  calls,               \* the setCanvasElements calls: their async position
  recordedBy,          \* history: the call that wrote elementMap[id] (0: none)
  lastEvent,           \* the last mouse:up event handled and what it emitted
  delivered,           \* the video size the host delivered last (optional)
  built,               \* the frame scale of the last canvas built (optional)
  lastUse,             \* the metadata the last projection / conversion read
  nBuilds, nGestures,  \* counters that bound the behaviour
  backgroundColor,     \* twickCanvas.backgroundColor ("" when unset)
  notifications,       \* history: the onCanvasOperation calls, in call order
  lastBuild,           \* history: the last buildCanvas call and what it kept
  surfaces,            \* history: every fabric canvas created so far
  players,             \* the LivePlayer instances: refs, props, history
  listeners,           \* the twick:playerUpdate listeners on window
  forwarded,           \* history: the events passed to onPlayerUpdate
  zoom,                \* PlayerControls: its props and the setZoomLevel calls
  manager              \* PlayerManager: durationRef, current time, state

vars == << twickCanvas, canvasMetadataRef, videoSizeRef, canvasResolutionRef,
           elementMap, elementFrameMap, captionPropsRef, objects, calls,
           recordedBy, lastEvent, delivered, built, lastUse, nBuilds, nGestures,
           backgroundColor, notifications, lastBuild, surfaces, players,
           listeners, forwarded, zoom, manager >>

canvasVars == << twickCanvas, canvasMetadataRef, videoSizeRef,
                 canvasResolutionRef >>
registryVars == << elementMap, elementFrameMap, captionPropsRef >>
hookVars == << canvasVars, registryVars, objects, calls, recordedBy,
               lastEvent, delivered, built, lastUse, nBuilds, nGestures,
               backgroundColor, notifications, lastBuild, surfaces >>
hostVars == << players, listeners, forwarded, zoom, manager >>

CallIds == 1 .. MaxCalls

\* One setCanvasElements call.  state: idle (not called yet), running, or
\* done (the async function has returned).  pcs[i] is the position of the
\* projection of elements[i]: "media" (awaiting the add<Type>Element helper),
\* "bg" (awaiting addBackgroundColor), "done" (recorded in elementMap),
\* "failed" (the helper rejected; caught and logged).  The other fields are
\* history: the canvas the closure holds, how often the reorder ran, how
\* many projections were in flight when it ran, whether the call returned
\* at the surface-ready guard (early) or through its outer catch (rejected),
\* which projections were recorded, and the newer call that started while
\* this one was running.  A direct addElementToCanvas call is a call with
\* single set: one element, its index and reorder arguments, no join.
\* cleanAndAdd is the argument of the call; after is the size of the canvas
\* and the registry maps when the call returned; snapTime[i] is the snap
\* time handed to addVideoElement for elements[i] (optional).
IdleCall == [state |-> "idle", canvas |-> 0, elements |-> << >>,
             pcs |-> << >>, seekTime |-> 0, captionProps |-> Nothing,
             metadata |-> Nothing, videoSize |-> Nothing,
             reorders |-> 0, inflightAtReorder |-> 0, early |-> FALSE,
             rejected |-> FALSE, recorded |-> {}, supersededBy |-> 0,
             cleanAndAdd |-> FALSE, single |-> FALSE, reorder |-> FALSE,
             index |-> 0, after |-> Nothing, snapTime |-> << >>]

\* A fabric canvas as buildCanvas leaves it: whether it was disposed and how
\* many times handleMouseUp is attached to its mouse:up event.
Surface(id) == [id |-> id, disposed |-> FALSE, handlers |-> 0]

\* The LivePlayer instances.  The id of an instance (playerRef.current.id,
\* generated once per instance) is its name here.
PlayerIds == {"p1", "p2"}

\* One LivePlayer instance before it is mounted: isFirstRender.current, the
\* player and htmlElement of playerRef.current (held or null), the
\* projectData prop (optional), the variables attribute of the player
\* element (optional).  History: whether the instance was unmounted, the
\* player-ready events handled, the onPlayerReady invocations.
NoPlayer == [mounted |-> FALSE, unmounted |-> FALSE, isFirstRender |-> FALSE,
             player |-> FALSE, htmlElement |-> FALSE,
             projectData |-> Nothing, variables |-> Nothing,
             readyEvents |-> 0, readyCalls |-> << >>]

\* PlayerControls before it is rendered: the zoomLevel and zoomConfig props
\* (zoomLevel defaults to 1).  History: the values passed to setZoomLevel
\* and the press that passed the last one.
NoControls == [rendered |-> FALSE, zoomLevel |-> R(1),
               zoomConfig |-> [min |-> R(1), max |-> R(1), step |-> R(1)],
               passed |-> << >>, last |-> Nothing]

\* PlayerManager after its first render: durationRef.current, the current
\* time and player state of the live-player context.  History: the last
\* time update handled, the number of player events handled.
NewManager == [durationRef |-> 0, currentTime |-> 0, playerState |-> "PAUSED",
               last |-> Nothing, handled |-> 0]

Init ==
  /\ twickCanvas = 0
  /\ canvasMetadataRef = [width |-> 0, height |-> 0, aspectRatio |-> R(0),
                          scaleX |-> R(1), scaleY |-> R(1)]
  /\ videoSizeRef = [width |-> 1, height |-> 1]
  /\ canvasResolutionRef = [width |-> 1, height |-> 1]
  /\ elementMap = [id \in ElementIds |-> Nothing]
  /\ elementFrameMap = [id \in ElementIds |-> Nothing]
  /\ captionPropsRef = Nothing
  /\ objects = << >>
  /\ calls = [c \in CallIds |-> IdleCall]
  /\ recordedBy = [id \in ElementIds |-> 0]
  /\ lastEvent = Nothing
  /\ delivered = Nothing
  /\ built = Nothing
  /\ lastUse = Nothing
  /\ nBuilds = 0
  /\ nGestures = 0
  /\ backgroundColor = ""
  /\ notifications = << >>
  /\ lastBuild = Nothing
  /\ surfaces = {}
  /\ players = [p \in PlayerIds |-> NoPlayer]
  /\ listeners = {}
  /\ forwarded = {}
  /\ zoom = NoControls
  /\ manager = NewManager

\* ------------------------------------------------------- CoordinateMapper
\* createCanvas (helpers/canvas.util): the metadata of a new canvas.
CreateCanvasMetadata(videoSize, canvasSize) ==
  [width |-> canvasSize.width,
   height |-> canvasSize.height,
   aspectRatio |-> RNorm(canvasSize.width, canvasSize.height),
   scaleX |-> RNorm(canvasSize.width, videoSize.width),
   scaleY |-> RNorm(canvasSize.height, videoSize.height)]

\* the frame guide rectangle buildCanvas adds when showFrameGuide is set
FrameGuide(canvasSize) ==
  [oid |-> "", kind |-> "guide",
   left |-> RNorm(canvasSize.width, 2), top |-> RNorm(canvasSize.height, 2),
   angle |-> 0, scaleX |-> R(1), scaleY |-> R(1), zIndex |-> 0, by |-> 0]

\* variant: the old canvas is left as it is
DisposeCanvasNever(ss, ref) == ss

\* buildCanvas, "dispose of the old canvas if it exists": handleMouseUp is
\* taken off the canvas twickCanvasRef.current holds and the canvas is
\* disposed.
DisposeCanvas(ss, ref) ==
  { IF s.id = ref THEN [s EXCEPT !.disposed = TRUE, !.handlers = 0] ELSE s
    : s \in ss }

\* canvas?.on("mouse:up", handleMouseUp)
AttachMouseUp(s) == [s EXCEPT !.handlers = @ + 1]

\* buildCanvas({videoSize, canvasSize, canvasRef, forceBuild, frameScale,
\*              showFrameGuide})
BuildCanvas(videoSize, canvasSize, canvasRef, forceBuild, frameScale, showFrameGuide, background) ==
  /\ nBuilds' = nBuilds + 1
  /\ delivered' = IF canvasRef THEN Some(videoSize) ELSE delivered
  /\ IF ~canvasRef
     THEN UNCHANGED << canvasVars, objects, built, backgroundColor,
                       surfaces >>
     ELSE IF /\ ~forceBuild
             /\ canvasResolutionRef.width = canvasSize.width
             /\ canvasResolutionRef.height = canvasSize.height
     THEN UNCHANGED << canvasVars, objects, built, backgroundColor,
                       surfaces >>
     ELSE LET canvasMetadata == CreateCanvasMetadata(videoSize, canvasSize)
              scaledMetadata ==
                [canvasMetadata EXCEPT
                   !.scaleX = RMul(canvasMetadata.scaleX, frameScale),
                   !.scaleY = RMul(canvasMetadata.scaleY, frameScale)]
          IN  /\ canvasMetadataRef' = scaledMetadata
              /\ videoSizeRef' = videoSize
              /\ canvasResolutionRef' = canvasSize
              /\ twickCanvas' = nBuilds + 1
              /\ built' = Some(frameScale)
              /\ backgroundColor' = background
              /\ surfaces' = DisposeCanvas(surfaces, twickCanvas)
                                \cup { AttachMouseUp(Surface(nBuilds + 1)) }
              /\ objects' = IF showFrameGuide
                            THEN << FrameGuide(canvasSize) >>
                            ELSE << >>
  /\ lastBuild' = Some([canvasSize |-> canvasSize,
                        same |-> /\ canvasRef /\ ~forceBuild
                                 /\ canvasResolutionRef = canvasSize,
                        kept |-> /\ twickCanvas' = twickCanvas
                                 /\ canvasMetadataRef' = canvasMetadataRef
                                 /\ videoSizeRef' = videoSizeRef
                                 /\ canvasResolutionRef' = canvasResolutionRef
                                 /\ objects' = objects])
  /\ UNCHANGED hostVars
  /\ UNCHANGED << registryVars, calls, recordedBy, lastEvent, lastUse,
                  nGestures, notifications >>

\* onVideoSizeChange(videoSize)
OnVideoSizeChange(videoSize) ==
  /\ nBuilds' = nBuilds + 1
  /\ videoSizeRef' = videoSize
  /\ canvasMetadataRef' =
       [canvasMetadataRef EXCEPT
          !.scaleX = RNorm(canvasMetadataRef.width, videoSize.width),
          !.scaleY = RNorm(canvasMetadataRef.height, videoSize.height)]
  /\ delivered' = Some(videoSize)
  /\ UNCHANGED hostVars
  /\ UNCHANGED << surfaces, twickCanvas, canvasResolutionRef, registryVars, objects,
                  calls, recordedBy, lastEvent, built, lastUse, nGestures,
                  backgroundColor, notifications, lastBuild >>

\* convertToVideoPosition(left, top, canvasMetadata, videoSize)
\* (helpers/canvas.util): canvas space to video space, origin at the centre
\* of the video frame.
ConvertToVideoPosition(left, top, canvasMetadata, videoSize) ==
  [x |-> RSub(RDiv(left, canvasMetadata.scaleX), RNorm(videoSize.width, 2)),
   y |-> RSub(RDiv(top, canvasMetadata.scaleY), RNorm(videoSize.height, 2))]

\* its inverse, used by the element helpers to place a visual object
ConvertToCanvasPosition(x, y, canvasMetadata, videoSize) ==
  [left |-> RMul(RAdd(x, RNorm(videoSize.width, 2)), canvasMetadata.scaleX),
   top  |-> RMul(RAdd(y, RNorm(videoSize.height, 2)), canvasMetadata.scaleY)]

\* ------------------------------------------------------ GestureReconciler
Actions == {"drag", "scale", "scaleX", "scaleY", "rotate"}

Notification(op, element, props) ==
  [op |-> op, element |-> element, props |-> props]

\* what handleMouseUp leaves behind: the two registry maps, the notifications
\* it emitted (in order) and whether it ended in a TypeError
Outcome(em, efm, emitted, threw) ==
  [elementMap |-> em, elementFrameMap |-> efm, emitted |-> emitted,
   threw |-> threw]

\* variant: any caption props at all switch the broadcast on
ApplyToAllTruthy(captionProps) == IsSome(captionProps)

\* line 550: captionPropsRef.current?.applyToAll
ApplyToAll(captionProps) ==
  IsSome(captionProps) /\ Get(captionProps).applyToAll

\* lines 549-572: the target is a caption
ReconcileCaption(elementId, pos) ==
  LET snap == Get(elementMap[elementId])
  IN  IF ApplyToAll(captionPropsRef)
      THEN Outcome(elementMap, elementFrameMap,
                   << Notification("CAPTION_PROPS_UPDATED", Some(snap),
                        Some([applyToAll |-> Get(captionPropsRef).applyToAll,
                              color |-> Get(captionPropsRef).color,
                              x |-> pos.x, y |-> pos.y])) >>,
                   FALSE)
      ELSE LET upd == [snap EXCEPT !.props.x = pos.x, !.props.y = pos.y]
           IN  Outcome([elementMap EXCEPT ![elementId] = Some(upd)],
                       elementFrameMap,
                       << Notification("ITEM_UPDATED", Some(upd), Nothing) >>,
                       FALSE)

\* variant: both sides scaled by the horizontal factor
UpdatedFrameSizeUniform(size, object) ==
  << RMul(size[1], object.scaleX), RMul(size[2], object.scaleX) >>

\* lines 578-586: the frame size scaled by the object's scaleX / scaleY
UpdatedFrameSize(size, object) ==
  << RMul(size[1], object.scaleX), RMul(size[2], object.scaleY) >>

\* lines 574-629: the target is a fabric group (a framed video / image)
ReconcileGroup(elementId, object, pos) ==
  LET snap == Get(elementMap[elementId])
      currentFrameEffect == elementFrameMap[elementId]
  IN  IF IsSome(currentFrameEffect)
      THEN LET fe == Get(currentFrameEffect)
               updatedFrameSize == UpdatedFrameSize(fe.props.frameSize, object)
               upd == [snap EXCEPT !.frameEffects =
                         [k \in DOMAIN snap.frameEffects |->
                            IF snap.frameEffects[k].id = fe.id
                            THEN [snap.frameEffects[k] EXCEPT
                                    !.props.framePosition =
                                       [x |-> pos.x, y |-> pos.y],
                                    !.props.frameSize = updatedFrameSize]
                            ELSE snap.frameEffects[k]]]
               updFe == [fe EXCEPT
                           !.framePosition = Some([x |-> pos.x, y |-> pos.y]),
                           !.frameSize = Some(updatedFrameSize)]
           IN  Outcome([elementMap EXCEPT ![elementId] = Some(upd)],
                       [elementFrameMap EXCEPT ![elementId] = Some(updFe)],
                       << Notification("ITEM_UPDATED", Some(upd), Nothing) >>,
                       FALSE)
      ELSE IF ~IsSome(snap.frame)
      THEN \* elementMap[id].frame.size of an element without a frame
           Outcome(elementMap, elementFrameMap, << >>, TRUE)
      ELSE LET frame == Get(snap.frame)
               updatedFrameSize == UpdatedFrameSize(frame.size, object)
               upd == [snap EXCEPT !.frame =
                         Some([frame EXCEPT !.rotation = object.angle,
                                            !.size = updatedFrameSize,
                                            !.x = pos.x, !.y = pos.y])]
           IN  Outcome([elementMap EXCEPT ![elementId] = Some(upd)],
                       elementFrameMap,
                       << Notification("ITEM_UPDATED", Some(upd), Nothing) >>,
                       FALSE)

\* lines 631-679: text, circle and every other object type
ReconcilePlain(elementId, object, pos) ==
  LET snap == Get(elementMap[elementId])
      upd ==
        IF object.kind = "text"
        THEN [snap EXCEPT !.props.rotation = object.angle,
                          !.props.x = pos.x, !.props.y = pos.y]
        ELSE IF object.kind = "circle"
        THEN LET radius == ToFixed2(RMul(snap.props.radius, object.scaleX))
             IN  [snap EXCEPT !.props.rotation = object.angle,
                              !.props.radius = radius,
                              !.props.height = RMul(radius, R(2)),
                              !.props.width = RMul(radius, R(2)),
                              !.props.x = pos.x, !.props.y = pos.y]
        ELSE [snap EXCEPT !.props.rotation = object.angle,
                          !.props.width =
                             RMul(snap.props.width, object.scaleX),
                          !.props.height =
                             RMul(snap.props.height, object.scaleY),
                          !.props.x = pos.x, !.props.y = pos.y]
  IN  Outcome([elementMap EXCEPT ![elementId] = Some(upd)],
              elementFrameMap,
              << Notification("ITEM_UPDATED", Some(upd), Nothing) >>,
              FALSE)

\* variant: left compared with top
IsClickCrossed(object, original, action) ==
  /\ action = "drag"
  /\ object.left = original.top
  /\ object.top = original.left

\* lines 527-536: a drag that ends where it started is a click
IsClick(object, original, action) ==
  /\ action = "drag"
  /\ object.left = original.left
  /\ object.top = original.top

\* variant: the canvas position is reported as it is
GesturePositionCanvas(object) == [x |-> object.left, y |-> object.top]

\* lines 543-548: the video-space position of the target, through the
\* metadata and video size the hook holds now
GesturePosition(object) ==
  ConvertToVideoPosition(object.left, object.top, canvasMetadataRef,
                         videoSizeRef)

\* handleMouseUp(event) with event.target = object (after the interaction),
\* event.transform.original = original, event.transform.action = action
Reconcile(object, original, action) ==
  LET elementId == object.oid
      known == elementId \in ElementIds /\ IsSome(elementMap[elementId])
  IN  IF IsClick(object, original, action)
      THEN Outcome(elementMap, elementFrameMap,
                   << Notification("ITEM_SELECTED",
                                   IF elementId \in ElementIds
                                   THEN elementMap[elementId] ELSE Nothing,
                                   Nothing) >>,
                   FALSE)
      ELSE IF action \notin Actions
      THEN Outcome(elementMap, elementFrameMap, << >>, FALSE)
      ELSE IF ~known
      THEN \* elementMap.current[elementId].type of undefined
           Outcome(elementMap, elementFrameMap, << >>, TRUE)
      ELSE LET pos == GesturePosition(object)
           IN  IF Get(elementMap[elementId]).type = "caption"
               THEN ReconcileCaption(elementId, pos)
               ELSE IF object.kind = "group"
               THEN ReconcileGroup(elementId, object, pos)
               ELSE ReconcilePlain(elementId, object, pos)

\* the geometry a completed interaction can leave on the target: fabric has
\* already moved / scaled / rotated the object when mouse:up fires, and the
\* object keeps its scaleX / scaleY / angle until it is projected again
DragLefts == { R(100) }
DragTops == { R(60) }
ScaleFactors == { R(2), <<1, 3>> }
Angles == { 0, 90 }

GestureResults(o, action) ==
  IF action = "drag"
  THEN { [o EXCEPT !.left = l, !.top = t] :
           l \in {o.left} \cup DragLefts, t \in {o.top} \cup DragTops }
  ELSE IF action = "scale"
  THEN { [o EXCEPT !.scaleX = RMul(o.scaleX, f), !.scaleY = RMul(o.scaleY, f)] :
           f \in ScaleFactors }
  ELSE IF action = "scaleX"
  THEN { [o EXCEPT !.scaleX = RMul(o.scaleX, f)] : f \in ScaleFactors }
  ELSE IF action = "scaleY"
  THEN { [o EXCEPT !.scaleY = RMul(o.scaleY, f)] : f \in ScaleFactors }
  ELSE { [o EXCEPT !.angle = a] : a \in Angles }

\* variant: a notification is delivered ahead of the earlier ones
EmitFirst(log, event, emitted) ==
  [j \in DOMAIN emitted |-> [event |-> event, op |-> emitted[j].op]] \o log

\* lines 530, 551, 568, 676: onCanvasOperation?.(op, data) is an ordinary call, so
\* the host receives the notifications of an event, in the order the calls
\* are made, before handleMouseUp returns
Emit(log, event, emitted) ==
  log \o [j \in DOMAIN emitted |-> [event |-> event, op |-> emitted[j].op]]

\* variant: the target is brought to the front
AfterInteractionRaised(objs, k, object) ==
  [j \in DOMAIN objs |->
     IF j < k THEN objs[j] ELSE IF j < Len(objs) THEN objs[j + 1] ELSE object]

\* lines 523-684: handleMouseUp only reads the target; the canvas keeps its
\* objects where they are, with the geometry the interaction gave the target
AfterInteraction(objs, k, object) == [objs EXCEPT ![k] = object]

\* the surface reports a completed interaction on objects[k]; handleMouseUp
\* runs to completion
HandleMouseUp(k, action, object) ==
  /\ twickCanvas # 0
  /\ k \in DOMAIN objects
  /\ objects[k].kind \notin {"guide", "bg"}
  /\ object \in GestureResults(objects[k], action)
  /\ LET original == objects[k]
         out == Reconcile(object, original, action)
         id == object.oid
         converted == /\ ~IsClick(object, original, action)
                      /\ IsSome(elementMap[id])
     IN  /\ objects' = AfterInteraction(objects, k, object)
         /\ notifications' = Emit(notifications, nGestures + 1, out.emitted)
         /\ elementMap' = out.elementMap
         /\ elementFrameMap' = out.elementFrameMap
         /\ lastEvent' =
              Some([oid |-> id, kind |-> object.kind, action |-> action,
                    original |-> original, object |-> object,
                    priorElement |-> elementMap[id],
                    priorFrameEffect |-> elementFrameMap[id],
                    priorCaptionProps |-> captionPropsRef,
                    metadata |-> canvasMetadataRef,
                    videoSize |-> videoSizeRef,
                    emitted |-> out.emitted, threw |-> out.threw,
                    afterElement |-> out.elementMap[id],
                    afterFrameEffect |-> out.elementFrameMap[id],
                    registryKept |-> /\ out.elementMap = elementMap
                                     /\ out.elementFrameMap = elementFrameMap])
         /\ lastUse' = IF converted
                       THEN Some([by |-> "gesture",
                                  metadata |-> canvasMetadataRef,
                                  videoSize |-> videoSizeRef,
                                  delivered |-> delivered, built |-> built])
                       ELSE lastUse
  /\ nGestures' = nGestures + 1
  /\ UNCHANGED hostVars
  /\ UNCHANGED << surfaces, canvasVars, captionPropsRef, calls, recordedBy, delivered,
                  built, nBuilds, backgroundColor, lastBuild >>

\* ----------------------------------------------------------- SceneRegistry
\* getCurrentFrameEffect(element, seekTime) (helpers/canvas.util): the first
\* frame effect of the element whose window holds the time, if any
GetCurrentFrameEffect(element, seekTime) ==
  LET act == { k \in DOMAIN element.frameEffects :
                 /\ element.frameEffects[k].s <= seekTime
                 /\ seekTime < element.frameEffects[k].e }
  IN  IF act = {} THEN Nothing
      ELSE Some(element.frameEffects[CHOOSE k \in act : \A j \in act : k <= j])

\* --------------------------------------------------------- ElementProjector
\* the fabric object an add<Type>Element helper (components/elements) puts
\* on the canvas for an element: a framed video / image is a group
ObjectKind(element) ==
  IF element.type \in {"video", "image"}
  THEN IF IsSome(element.frame) THEN "group" ELSE "image"
  ELSE element.type

VisualObject(element, index, currentFrameEffect, canvasMetadata, videoSize, by) ==
  LET at == IF ObjectKind(element) = "group"
            THEN IF IsSome(currentFrameEffect)
                 THEN Get(currentFrameEffect).props.framePosition
                 ELSE [x |-> Get(element.frame).x, y |-> Get(element.frame).y]
            ELSE [x |-> element.props.x, y |-> element.props.y]
      pos == ConvertToCanvasPosition(at.x, at.y, canvasMetadata, videoSize)
  IN  [oid |-> element.id, kind |-> ObjectKind(element),
       left |-> pos.left, top |-> pos.top,
       angle |-> IF ObjectKind(element) = "group" /\ IsSome(element.frame)
                 THEN Get(element.frame).rotation
                 ELSE element.props.rotation,
       scaleX |-> R(1), scaleY |-> R(1), zIndex |-> index, by |-> by]

\* addBackgroundColor: the backdrop of a scene-type media element
BackgroundObject(element, index, canvasMetadata, by) ==
  [oid |-> element.id, kind |-> "bg",
   left |-> RNorm(canvasMetadata.width, 2),
   top |-> RNorm(canvasMetadata.height, 2),
   angle |-> 0, scaleX |-> R(1), scaleY |-> R(1), zIndex |-> index, by |-> by]

\* a projection refreshes the visual object of the element if the canvas
\* has one, and adds it otherwise
PutObject(objs, o) ==
  IF \E k \in DOMAIN objs : objs[k].oid = o.oid /\ objs[k].kind = o.kind
  THEN [k \in DOMAIN objs |->
          IF objs[k].oid = o.oid /\ objs[k].kind = o.kind THEN o ELSE objs[k]]
  ELSE Append(objs, o)

\* ------------------------------------------------------------ SceneBuilder
\* reorderElementsByZIndex(canvas) (helpers/canvas.util): back to front by
\* z-index, the frame guide at the very back, a backdrop behind its media
ZKey(o) ==
  IF o.kind = "guide" THEN -1
  ELSE IF o.kind = "bg" THEN 2 * o.zIndex
  ELSE 2 * o.zIndex + 1

RECURSIVE InsertByZ(_, _)
InsertByZ(sorted, o) ==
  IF sorted = << >> THEN << o >>
  ELSE IF ZKey(sorted[Len(sorted)]) <= ZKey(o) THEN Append(sorted, o)
  ELSE Append(InsertByZ(SubSeq(sorted, 1, Len(sorted) - 1), o),
              sorted[Len(sorted)])

RECURSIVE ReorderElementsByZIndex(_)
ReorderElementsByZIndex(objs) ==
  IF objs = << >> THEN << >>
  ELSE InsertByZ(ReorderElementsByZIndex(SubSeq(objs, 1, Len(objs) - 1)),
                 objs[Len(objs)])

\* clearCanvas(canvas) (helpers/canvas.util): removes every visual object
ClearCanvas(objs) == << >>

\* ... and leaves the canvas without a background colour
ClearedBackground == ""

\* variant: the colour is not put back
RestoreBackgroundNever(saved, cleared) == cleared

\* lines 721-730: the background colour read before clearCanvas is put back
\* when it is truthy
RestoreBackground(saved, cleared) == IF saved # "" THEN saved ELSE cleared

\* variant: the guard lets every call through
SurfaceReadyAlways == TRUE

\* lines 713 and 789: the guard of setCanvasElements / addElementToCanvas
SurfaceReady == twickCanvas # 0

\* what a call leaves behind when it returns
Snapshot(objs, em, efm) ==
  [count |-> Len(objs), elementMap |-> em, elementFrameMap |-> efm]

InFlight(call) == { i \in DOMAIN call.pcs : call.pcs[i] \in {"media", "bg"} }

\* the first unused call
NextCall == CHOOSE c \in CallIds :
              /\ calls[c].state = "idle"
              /\ \A d \in CallIds : calls[d].state = "idle" => c <= d

\* lines 794-800: what addElementToCanvas writes before its first await
\* (the video case resolves and stores the current frame effect)
StartProjection(efm, element, seekTime) ==
  IF element.type = "video"
  THEN [efm EXCEPT ![element.id] = GetCurrentFrameEffect(element, seekTime)]
  ELSE efm

\* element?.s, element?.props?.playbackRate: a field the data may lack
Field(rec, name) == IF name \in DOMAIN rec THEN Some(rec[name]) ELSE Nothing

\* value || fallback: an absent value and 0 are falsy
OrElse(o, fallback) ==
  IF o = Nothing \/ Get(o) = R(0) THEN fallback ELSE Get(o)

\* variant: the element's start is not subtracted
SnapTimeFromZero(element, seekTime) ==
  RAdd(RMul(OrElse(Some(R(seekTime)), R(0)),
            OrElse(Field(element.props, "playbackRate"), R(1))),
       OrElse(Field(element.props, "time"), R(0)))

\* lines 801-804: the snap time of a video element projected at seekTime
SnapTime(element, seekTime) ==
  RAdd(RMul(RSub(OrElse(Some(R(seekTime)), R(0)),
                 OrElse(Field(element, "s"), R(0))),
            OrElse(Field(element.props, "playbackRate"), R(1))),
       OrElse(Field(element.props, "time"), R(0)))

\* the snap times of the video elements of a call
SnapTimes(elements, seekTime) ==
  [i \in DOMAIN elements |->
     IF elements[i].type = "video"
     THEN Some(SnapTime(elements[i], seekTime)) ELSE Nothing]

RECURSIVE StartProjections(_, _, _)
StartProjections(efm, elements, seekTime) ==
  IF elements = << >> THEN efm
  ELSE StartProjections(StartProjection(efm, Head(elements), seekTime),
                        Tail(elements), seekTime)

\* setCanvasElements({elements, seekTime, captionProps, cleanAndAdd}) up to
\* its await: the guard, the optional clear, captionPropsRef, and the
\* synchronous start of every element's addElementToCanvas
SetCanvasElements(elements, seekTime, captionProps, cleanAndAdd) ==
  /\ \E c \in CallIds : calls[c].state = "idle"
  /\ LET c == NextCall
     IN  IF ~SurfaceReady
         THEN /\ calls' = [calls EXCEPT ![c] =
                             [IdleCall EXCEPT !.state = "done",
                                              !.elements = elements,
                                              !.cleanAndAdd = cleanAndAdd,
                                              !.early = TRUE]]
              /\ UNCHANGED << registryVars, objects, lastUse,
                              backgroundColor >>
         ELSE /\ objects' = IF cleanAndAdd THEN ClearCanvas(objects)
                            ELSE objects
              /\ backgroundColor' =
                   IF cleanAndAdd
                   THEN RestoreBackground(backgroundColor, ClearedBackground)
                   ELSE backgroundColor
              /\ captionPropsRef' = captionProps
              /\ elementFrameMap' =
                   StartProjections(elementFrameMap, elements, seekTime)
              /\ elementMap' = elementMap
              /\ calls' =
                   [d \in CallIds |->
                      IF d = c
                      THEN [IdleCall EXCEPT
                              !.state = "running",
                              !.snapTime = SnapTimes(elements, seekTime),
                              !.canvas = twickCanvas,
                              !.elements = elements,
                              !.pcs = [i \in DOMAIN elements |-> "media"],
                              !.seekTime = seekTime,
                              !.captionProps = captionProps,
                              !.metadata = Some(canvasMetadataRef),
                              !.videoSize = Some(videoSizeRef),
                              !.cleanAndAdd = cleanAndAdd]
                      ELSE IF calls[d].state = "running"
                              /\ calls[d].supersededBy = 0
                      THEN [calls[d] EXCEPT !.supersededBy = c]
                      ELSE calls[d]]
              /\ lastUse' = IF elements = << >> THEN lastUse
                            ELSE Some([by |-> "projection",
                                       metadata |-> canvasMetadataRef,
                                       videoSize |-> videoSizeRef,
                                       delivered |-> delivered,
                                       built |-> built])
  /\ UNCHANGED hostVars
  /\ UNCHANGED << surfaces, canvasVars, recordedBy, lastEvent, delivered, built,
                  nBuilds, nGestures, notifications, lastBuild >>

\* addElementToCanvas({element, index, reorder, seekTime, captionProps})
\* called directly, up to its first await
AddElementToCanvas(element, index, reorder, seekTime, captionProps) ==
  /\ \E c \in CallIds : calls[c].state = "idle"
  /\ LET c == NextCall
     IN  IF ~SurfaceReady
         THEN /\ calls' = [calls EXCEPT ![c] =
                             [IdleCall EXCEPT !.state = "done",
                                              !.elements = << element >>,
                                              !.single = TRUE,
                                              !.reorder = reorder,
                                              !.index = index,
                                              !.early = TRUE]]
              /\ UNCHANGED << elementFrameMap, lastUse >>
         ELSE /\ elementFrameMap' =
                   StartProjection(elementFrameMap, element, seekTime)
              /\ calls' = [calls EXCEPT ![c] =
                             [IdleCall EXCEPT
                                !.state = "running",
                                !.snapTime =
                                   SnapTimes(<< element >>, seekTime),
                                !.canvas = twickCanvas,
                                !.elements = << element >>,
                                !.pcs = << "media" >>,
                                !.seekTime = seekTime,
                                !.captionProps = captionProps,
                                !.metadata = Some(canvasMetadataRef),
                                !.videoSize = Some(videoSizeRef),
                                !.single = TRUE,
                                !.reorder = reorder,
                                !.index = index]]
              /\ lastUse' = Some([by |-> "projection",
                                  metadata |-> canvasMetadataRef,
                                  videoSize |-> videoSizeRef,
                                  delivered |-> delivered,
                                  built |-> built])
  /\ UNCHANGED hostVars
  /\ UNCHANGED << surfaces, canvasVars, elementMap, captionPropsRef, objects,
                  recordedBy, lastEvent, delivered, built, nBuilds, nGestures,
                  backgroundColor, notifications, lastBuild >>

\* variant: the rejection escapes to Promise.all and the outer catch
ProjectionFailedAborts(call, i) ==
  [call EXCEPT !.pcs[i] = "failed", !.rejected = TRUE, !.state = "done"]

\* lines 736-750: the try / catch around one element's projection; a
\* helper that rejects is logged and leaves the rest of the call alone
ProjectionFailed(call, i) == [call EXCEPT !.pcs[i] = "failed"]

\* lines 776-878: addElementToCanvas itself has no try / catch; called
\* directly, a helper that rejects rejects the call
ProjectionRejected(call, i) ==
  [call EXCEPT !.pcs[i] = "failed", !.rejected = TRUE, !.state = "done"]

Failed(call, i) ==
  IF call.single THEN ProjectionRejected(call, i) ELSE ProjectionFailed(call, i)

\* line 874 (and what precedes it after the last await): the projection of
\* elements[i] is recorded in elementMap
ProjectionRecorded(call, i) ==
  [call EXCEPT !.pcs[i] = "done", !.recorded = @ \cup {i}]

\* variant: a projection of a recorded element drops its entry
RecordFresh(em, element) ==
  [em EXCEPT ![element.id] = IF IsSome(@) THEN Nothing ELSE Some(element)]

\* line 874: elementMap.current[element.id] = element
Record(em, element) == [em EXCEPT ![element.id] = Some(element)]

\* the index argument of the projection of elements[i]: the position in the
\* list (line 735), or the argument of the direct call
IndexOf(call, i) == IF call.single THEN call.index ELSE i - 1

\* lines 875-877: a direct call with reorder set reorders the canvas
Landed(call, objs) ==
  IF call.single /\ call.reorder THEN ReorderElementsByZIndex(objs) ELSE objs

\* a direct call returns after line 877; a projection started by
\* setCanvasElements leaves the return to the join
Returned(call, objs, em, efm) ==
  IF call.single
  THEN [call EXCEPT !.state = "done",
                    !.reorders = IF call.reorder THEN 1 ELSE 0,
                    !.after = Some(Snapshot(objs, em, efm))]
  ELSE call

\* the add<Type>Element helper of elements[i] of call c settles
CompleteMedia(c, i, ok) ==
  /\ i \in DOMAIN calls[c].pcs
  /\ calls[c].pcs[i] = "media"
  /\ LET call == calls[c]
         element == call.elements[i]
         scene == /\ element.type \in {"video", "image"}
                  /\ element.timelineType = "scene"
         obj == VisualObject(element, IndexOf(call, i),
                             IF element.type = "video"
                             THEN GetCurrentFrameEffect(element, call.seekTime)
                             ELSE Nothing,
                             Get(call.metadata), Get(call.videoSize), c)
         put == IF call.canvas = twickCanvas
                THEN PutObject(objects, obj) ELSE objects
         landed == IF call.canvas = twickCanvas
                   THEN Landed(call, put) ELSE objects
         em == Record(elementMap, element)
     IN  IF ~ok
         THEN /\ calls' = [calls EXCEPT ![c] = Failed(call, i)]
              /\ UNCHANGED << objects, elementMap, recordedBy, lastUse >>
         ELSE /\ objects' = IF scene THEN put ELSE landed
              /\ IF scene
                 THEN /\ calls' = [calls EXCEPT ![c].pcs[i] = "bg"]
                      /\ lastUse' = Some([by |-> "projection",
                                          metadata |-> canvasMetadataRef,
                                          videoSize |-> videoSizeRef,
                                          delivered |-> delivered,
                                          built |-> built])
                      /\ UNCHANGED << elementMap, recordedBy >>
                 ELSE /\ calls' = [calls EXCEPT ![c] =
                                     Returned(ProjectionRecorded(call, i),
                                              landed, em, elementFrameMap)]
                      /\ elementMap' = em
                      /\ recordedBy' = [recordedBy EXCEPT ![element.id] = c]
                      /\ UNCHANGED lastUse
  /\ UNCHANGED hostVars
  /\ UNCHANGED << surfaces, canvasVars, elementFrameMap, captionPropsRef, lastEvent,
                  delivered, built, nBuilds, nGestures, backgroundColor,
                  notifications, lastBuild >>

\* addBackgroundColor of the scene element elements[i] of call c settles
CompleteBackground(c, i, ok) ==
  /\ i \in DOMAIN calls[c].pcs
  /\ calls[c].pcs[i] = "bg"
  /\ LET call == calls[c]
         element == call.elements[i]
         landed == IF call.canvas = twickCanvas
                   THEN Landed(call,
                          PutObject(objects,
                            BackgroundObject(element, IndexOf(call, i),
                                             canvasMetadataRef, c)))
                   ELSE objects
         em == Record(elementMap, element)
     IN  IF ~ok
         THEN /\ calls' = [calls EXCEPT ![c] = Failed(call, i)]
              /\ UNCHANGED << objects, elementMap, recordedBy >>
         ELSE /\ objects' = landed
              /\ calls' = [calls EXCEPT ![c] =
                             Returned(ProjectionRecorded(call, i),
                                      landed, em, elementFrameMap)]
              /\ elementMap' = em
              /\ recordedBy' = [recordedBy EXCEPT ![element.id] = c]
  /\ UNCHANGED hostVars
  /\ UNCHANGED << surfaces, canvasVars, elementFrameMap, captionPropsRef, lastEvent,
                  delivered, built, lastUse, nBuilds, nGestures,
                  backgroundColor, notifications, lastBuild >>

\* variant: only the first projection is awaited
JoinedFirst(call) ==
  call.pcs = << >> \/ call.pcs[1] \notin {"media", "bg"}

\* line 734: Promise.all resolves when no projection of the call is pending
Joined(call) == InFlight(call) = {}

\* variant: the canvas is left in arrival order
AfterJoinUnordered(objs) == objs

\* line 753: reorderElementsByZIndex(twickCanvas) once every projection of
\* the call has settled
AfterJoin(objs) == ReorderElementsByZIndex(objs)

\* lines 752-753: after the join the call reorders its canvas and returns
Reorder(c) ==
  /\ calls[c].state = "running"
  /\ ~calls[c].single
  /\ Joined(calls[c])
  /\ LET reordered == IF calls[c].canvas = twickCanvas
                      THEN AfterJoin(objects) ELSE objects
     IN  /\ calls' = [calls EXCEPT ![c].state = "done",
                                   ![c].reorders = @ + 1,
                                   ![c].inflightAtReorder =
                                      Cardinality(InFlight(calls[c])),
                                   ![c].after =
                                      Some(Snapshot(reordered, elementMap,
                                                    elementFrameMap))]
         /\ objects' = reordered
  /\ UNCHANGED hostVars
  /\ UNCHANGED << surfaces, canvasVars, registryVars, recordedBy, lastEvent, delivered,
                  built, lastUse, nBuilds, nGestures, backgroundColor,
                  notifications, lastBuild >>

\* ---------------------------------------------------------- specifications
Started == Cardinality({ c \in CallIds : calls[c].state # "idle" })

CaptionProps(all) == Some([applyToAll |-> all, color |-> "white"])

Rebuild(elements, seekTime, captionProps, cleanAndAdd) ==
  [elements |-> elements, seekTime |-> seekTime,
   captionProps |-> captionProps, cleanAndAdd |-> cleanAndAdd]

HD == [width |-> 1920, height |-> 1080]
HalfHD == [width |-> 960, height |-> 540]

\* Spec: one canvas, one rebuild of a small scene, then gestures on it.
GestureRebuilds ==
  { Rebuild(<< ElemV1 >>, 1, Nothing, FALSE),
    Rebuild(<< ElemV1 >>, 5, Nothing, FALSE),
    Rebuild(<< ElemCap1 >>, 0, CaptionProps(TRUE), FALSE),
    Rebuild(<< ElemCap1 >>, 0, CaptionProps(FALSE), FALSE),
    Rebuild(<< ElemCap1 >>, 0, Nothing, FALSE),
    Rebuild(<< ElemC1, ElemR1 >>, 0, Nothing, TRUE),
    Rebuild(<< ElemT1, ElemI1 >>, 0, Nothing, FALSE) }

Build ==
  /\ nBuilds < 1
  /\ \E f \in FrameScales : BuildCanvas(HD, HalfHD, TRUE, FALSE, f, TRUE, "#000000")

Project ==
  /\ Started < 1
  /\ \E r \in GestureRebuilds :
       SetCanvasElements(r.elements, r.seekTime, r.captionProps, r.cleanAndAdd)

MediaDone == \E c \in CallIds, i \in 1 .. 2 : CompleteMedia(c, i, TRUE)

BackgroundDone == \E c \in CallIds, i \in 1 .. 2 : CompleteBackground(c, i, TRUE)

Join == \E c \in CallIds : Reorder(c)

Gesture ==
  /\ nGestures < MaxGestures
  /\ \E k \in DOMAIN objects, action \in Actions :
       \E object \in GestureResults(objects[k], action) :
         HandleMouseUp(k, action, object)

Next == Build \/ Project \/ MediaDone \/ BackgroundDone \/ Join \/ Gesture

Spec == Init /\ [][Next]_vars

\* SpecRebuild: one canvas, overlapping rebuilds whose helpers may reject.
Rebuilds ==
  { Rebuild(<< ElemV1, ElemR1 >>, 1, Nothing, FALSE),
    Rebuild(<< ElemC1 >>, 1, Nothing, FALSE),
    Rebuild(<< ElemC1 >>, 1, Nothing, TRUE) }

RBuild ==
  /\ nBuilds < 1
  /\ \E guide \in BOOLEAN : BuildCanvas(HD, HalfHD, TRUE, FALSE, R(1), guide, "#000000")

RProject ==
  /\ Started < MaxCalls
  /\ \E r \in Rebuilds :
       SetCanvasElements(r.elements, r.seekTime, r.captionProps, r.cleanAndAdd)

RMedia ==
  \E c \in CallIds, i \in 1 .. 2, ok \in BOOLEAN : CompleteMedia(c, i, ok)

RBackground ==
  \E c \in CallIds, i \in 1 .. 2, ok \in BOOLEAN : CompleteBackground(c, i, ok)

NextRebuild == RBuild \/ RProject \/ RMedia \/ RBackground \/ Join

SpecRebuild == Init /\ [][NextRebuild]_vars

\* SpecCanvas: the host delivers video and canvas sizes in any order, around
\* one projection and one gesture.
CBuild ==
  /\ nBuilds < MaxBuilds
  /\ \E v \in VideoSizes, cs \in CanvasSizes \cup BadCanvasSizes,
        canvasRef \in BOOLEAN, forceBuild \in BOOLEAN, f \in FrameScales,
        guide \in BOOLEAN :
       BuildCanvas(v, cs, canvasRef, forceBuild, f, guide, "#000000")

CVideoSize ==
  /\ nBuilds < MaxBuilds
  /\ \E v \in VideoSizes : OnVideoSizeChange(v)

CProject ==
  /\ Started < 1
  /\ SetCanvasElements(<< ElemR1 >>, 0, Nothing, FALSE)

CGesture ==
  /\ nGestures < 1
  /\ \E k \in DOMAIN objects :
       \E object \in GestureResults(objects[k], "drag") :
         HandleMouseUp(k, "drag", object)

NextCanvas == CBuild \/ CVideoSize \/ CProject \/ MediaDone \/ Join \/ CGesture

SpecCanvas == Init /\ [][NextCanvas]_vars

\* SpecScene: the host rebuilds and projects one call after the other (it
\* awaits each), before and after the canvas exists; helpers may reject.
SceneRebuilds ==
  { Rebuild(l, 1, Nothing, clean) :
      l \in { << ElemV1, ElemR1 >>, << ElemI2 >>, << ElemC1 >>, << >> },
      clean \in BOOLEAN }

Idle == \A c \in CallIds : calls[c].state # "running"

SBuild ==
  /\ nBuilds < 1
  /\ \E guide \in BOOLEAN, background \in BackgroundColors :
       BuildCanvas(HD, HalfHD, TRUE, FALSE, R(1), guide, background)

SProject ==
  /\ Started < MaxCalls
  /\ Idle
  /\ \E r \in SceneRebuilds :
       SetCanvasElements(r.elements, r.seekTime, r.captionProps, r.cleanAndAdd)

SAdd ==
  /\ Started < MaxCalls
  /\ Idle
  /\ \E element \in { ElemR1, ElemI2 }, reorder \in BOOLEAN :
       AddElementToCanvas(element, 0, reorder, 1, Nothing)

NextScene == SBuild \/ SProject \/ SAdd \/ RMedia \/ RBackground \/ Join

SpecScene == Init /\ [][NextScene]_vars

\* ------------------------------------------------------------------ claims
\* the last event, when it was a click: a drag whose target did not move
Clicked(e) ==
  /\ e.action = "drag"
  /\ e.object.left = e.original.left
  /\ e.object.top = e.original.top

\* the last event, when it was a gesture on a registered element
Gestured(e) ==
  /\ e.action \in Actions
  /\ ~Clicked(e)
  /\ IsSome(e.priorElement)

\* the video-space position of the target after the interaction
EventPosition(e) ==
  [x |-> RSub(RDiv(e.object.left, e.metadata.scaleX),
              RNorm(e.videoSize.width, 2)),
   y |-> RSub(RDiv(e.object.top, e.metadata.scaleY),
              RNorm(e.videoSize.height, 2))]

Ops(e) == [k \in DOMAIN e.emitted |-> e.emitted[k].op]

\* C1: a drag that leaves the target's left / top where they were emits
\* exactly one ITEM_SELECTED, no ITEM_UPDATED or CAPTION_PROPS_UPDATED, and
\* leaves the registry as it was.
C1_ClickSelects ==
  IsSome(lastEvent) /\ Clicked(Get(lastEvent)) =>
    LET e == Get(lastEvent)
    IN  /\ Ops(e) = << "ITEM_SELECTED" >>
        /\ e.emitted[1].element = e.priorElement
        /\ e.afterElement = e.priorElement
        /\ e.afterFrameEffect = e.priorFrameEffect
        /\ e.registryKept
        /\ ~e.threw

C1_Witness ==
  /\ IsSome(lastEvent)
  /\ Clicked(Get(lastEvent))
  /\ IsSome(Get(lastEvent).priorElement)
  /\ Get(lastEvent).original.left # Get(lastEvent).original.top

\* C7: a gesture on a group object of a non-caption element.  With an
\* active frame effect in the registry the emitted element is the prior
\* snapshot except for the frameEffects entry of that effect's id, which
\* gets the converted position and the effect's frameSize times the
\* target's (scaleX, scaleY); the base frame stays.  Without one only the
\* frame changes: position, rotation, size times (scaleX, scaleY).
C7_GroupPatch ==
  IsSome(lastEvent) /\ Gestured(Get(lastEvent))
    /\ Get(lastEvent).kind = "group"
    /\ Get(Get(lastEvent).priorElement).type # "caption" =>
    LET e == Get(lastEvent)
        prior == Get(e.priorElement)
        pos == EventPosition(e)
    IN  /\ Ops(e) = << "ITEM_UPDATED" >>
        /\ IsSome(e.emitted[1].element)
        /\ LET el == Get(e.emitted[1].element)
           IN  /\ [el EXCEPT !.frame = prior.frame,
                             !.frameEffects = prior.frameEffects] = prior
               /\ DOMAIN el.frameEffects = DOMAIN prior.frameEffects
               /\ IF IsSome(e.priorFrameEffect)
                  THEN LET fe == Get(e.priorFrameEffect)
                       IN  /\ el.frame = prior.frame
                           /\ \A k \in DOMAIN prior.frameEffects :
                                IF prior.frameEffects[k].id = fe.id
                                THEN /\ el.frameEffects[k].props.framePosition
                                          = pos
                                     /\ el.frameEffects[k].props.frameSize =
                                          << RMul(fe.props.frameSize[1],
                                                  e.object.scaleX),
                                             RMul(fe.props.frameSize[2],
                                                  e.object.scaleY) >>
                                     /\ [el.frameEffects[k] EXCEPT !.props =
                                           prior.frameEffects[k].props]
                                          = prior.frameEffects[k]
                                ELSE el.frameEffects[k] = prior.frameEffects[k]
                  ELSE /\ el.frameEffects = prior.frameEffects
                       /\ IsSome(el.frame) /\ IsSome(prior.frame)
                       /\ Get(el.frame) =
                            [size |-> << RMul(Get(prior.frame).size[1],
                                              e.object.scaleX),
                                         RMul(Get(prior.frame).size[2],
                                              e.object.scaleY) >>,
                             x |-> pos.x, y |-> pos.y,
                             rotation |-> e.object.angle]

\* a scaleY gesture on the framed video while its frame effect is active
C7_Witness ==
  /\ IsSome(lastEvent)
  /\ Gestured(Get(lastEvent))
  /\ Get(lastEvent).kind = "group"
  /\ IsSome(Get(lastEvent).priorFrameEffect)
  /\ Get(lastEvent).object.scaleX # Get(lastEvent).object.scaleY
  /\ Get(Get(lastEvent).afterElement).frameEffects[1].props.frameSize
       # Get(Get(lastEvent).priorElement).frameEffects[1].props.frameSize

\* C8: a gesture on a caption.  With captionProps.applyToAll set: exactly
\* one CAPTION_PROPS_UPDATED carrying the shared caption props with the new
\* x / y, no ITEM_UPDATED, registry unchanged.  Otherwise exactly one
\* ITEM_UPDATED for that caption and no broadcast.
C8_CaptionPatch ==
  IsSome(lastEvent) /\ Gestured(Get(lastEvent))
    /\ Get(Get(lastEvent).priorElement).type = "caption" =>
    LET e == Get(lastEvent)
        prior == Get(e.priorElement)
        pos == EventPosition(e)
        all == IsSome(e.priorCaptionProps)
               /\ Get(e.priorCaptionProps).applyToAll
    IN  IF all
        THEN /\ Ops(e) = << "CAPTION_PROPS_UPDATED" >>
             /\ e.emitted[1].props =
                  Some([applyToAll |-> TRUE,
                        color |-> Get(e.priorCaptionProps).color,
                        x |-> pos.x, y |-> pos.y])
             /\ e.afterElement = e.priorElement
             /\ e.registryKept
        ELSE /\ Ops(e) = << "ITEM_UPDATED" >>
             /\ e.emitted[1].element = e.afterElement
             /\ Get(e.afterElement).id = prior.id
             /\ Get(e.afterElement) =
                  [prior EXCEPT !.props.x = pos.x, !.props.y = pos.y]

\* a caption was moved once with applyToAll set ...
C8_Witness ==
  /\ IsSome(lastEvent)
  /\ Gestured(Get(lastEvent))
  /\ Get(Get(lastEvent).priorElement).type = "caption"
  /\ IsSome(Get(lastEvent).priorCaptionProps)
  /\ Get(Get(lastEvent).priorCaptionProps).applyToAll
  /\ Get(lastEvent).object.left # Get(lastEvent).original.left

C10_SizeOnlyByScale ==
  IsSome(lastEvent) /\ Gestured(Get(lastEvent))
    /\ Get(lastEvent).kind \in {"rect", "text", "image"}
    /\ Get(Get(lastEvent).priorElement).type # "caption" =>
    LET e == Get(lastEvent)
        prior == Get(e.priorElement).props
        pos == EventPosition(e)
    IN  /\ Ops(e) = << "ITEM_UPDATED" >>
        /\ e.emitted[1].element = e.afterElement
        /\ LET p == Get(e.afterElement).props
           IN  /\ p.x = pos.x /\ p.y = pos.y
               /\ p.rotation = e.object.angle
               /\ IF e.action \in {"drag", "rotate"} \/ e.kind = "text"
                  THEN p.width = prior.width /\ p.height = prior.height
                  ELSE /\ p.width = RMul(prior.width, e.object.scaleX)
                       /\ p.height = RMul(prior.height, e.object.scaleY)

\* the calls that passed the surface-ready guard and have returned
Finished(c) == calls[c].state = "done" /\ ~calls[c].early

ElementIdsOf(call) == { call.elements[i].id : i \in DOMAIN call.elements }

\* C2: the reorder of a setCanvasElements call runs only when none of the
\* call's projections is in flight, and exactly once per call that passes
\* the surface-ready guard.
C2_ReorderAfterJoin ==
  \A c \in CallIds :
    /\ calls[c].inflightAtReorder = 0
    /\ calls[c].reorders <= 1
    /\ (calls[c].reorders = 1 => InFlight(calls[c]) = {})
    /\ (Finished(c) => calls[c].reorders = 1)
    /\ (calls[c].early => calls[c].reorders = 0)

\* a call of two elements has reordered, after a success and a failure
C2_Witness ==
  \E c \in CallIds :
    /\ Finished(c)
    /\ calls[c].reorders = 1
    /\ Len(calls[c].pcs) = 2
    /\ calls[c].pcs[1] = "failed"
    /\ calls[c].pcs[2] = "done"

\* C3: when the projection of one element of the list fails, every other
\* element is still projected and recorded (unless it fails itself), the
\* reorder still runs and the call returns normally.
C3_FailureIsolated ==
  \A c \in CallIds :
    calls[c].state = "done" /\ ~calls[c].early
      /\ (\E i \in DOMAIN calls[c].pcs : calls[c].pcs[i] = "failed") =>
      /\ ~calls[c].rejected
      /\ calls[c].reorders = 1
      /\ \A j \in DOMAIN calls[c].pcs :
           calls[c].pcs[j] # "failed" =>
             /\ calls[c].pcs[j] = "done"
             /\ j \in calls[c].recorded
             /\ IsSome(elementMap[calls[c].elements[j].id])

\* the video of a call failed, the rectangle after it is on the canvas and
\* in the registry, written by that call
C3_Witness ==
  \E c \in CallIds :
    /\ Finished(c)
    /\ calls[c].pcs = << "failed", "done" >>
    /\ recordedBy[calls[c].elements[2].id] = c
    /\ \E k \in DOMAIN objects :
         objects[k].oid = calls[c].elements[2].id /\ objects[k].by = c

\* C4 (as claimed): once a superseded call and the call that superseded it
\* have both returned, neither the canvas nor the registry holds a result
\* of the older call for an identifier that the newer list lacks.
C4_SupersededDiscarded ==
  \A a \in CallIds, b \in CallIds :
    calls[a].supersededBy = b /\ Finished(a) /\ Finished(b) =>
      \A id \in ElementIds \ ElementIdsOf(calls[b]) :
        /\ recordedBy[id] # a
        /\ \A k \in DOMAIN objects :
             ~(objects[k].oid = id /\ objects[k].by = a)

\* C5 (as claimed): once a video size was delivered, the metadata and the
\* stored video size that a projection or a gesture conversion reads are
\* those of the delivered video size (with or without the frame scale).
C5_FreshMetadata ==
  IsSome(lastUse) /\ IsSome(Get(lastUse).delivered) =>
    LET u == Get(lastUse)
        v == Get(u.delivered)
    IN  /\ u.videoSize = v
        /\ \E f \in FrameScales \cup {R(1)} :
             /\ u.metadata.scaleX = RMul(RNorm(u.metadata.width, v.width), f)
             /\ u.metadata.scaleY = RMul(RNorm(u.metadata.height, v.height), f)

\* C6 (as claimed): after a canvas was built with frame scale f, scaleX and
\* scaleY are the canvas-to-video scale times f, also after a later
\* onVideoSizeChange; 1920x1080 on 960x540 with f = 1 gives 1/2.
C6_FrameScaleKept ==
  IsSome(built) =>
    LET f == Get(built)
    IN  /\ canvasMetadataRef.scaleX =
             RMul(RNorm(canvasMetadataRef.width, videoSizeRef.width), f)
        /\ canvasMetadataRef.scaleY =
             RMul(RNorm(canvasMetadataRef.height, videoSizeRef.height), f)
        /\ (videoSizeRef = HD /\ canvasResolutionRef = HalfHD /\ f = R(1) =>
              canvasMetadataRef.scaleX = <<1, 2>>
              /\ canvasMetadataRef.scaleY = <<1, 2>>)

\* C11: a completed interaction whose target has no registry entry (its
\* identifier is absent or not recorded) is ignored for every action kind:
\* nothing is emitted, no error is raised, the registry stays as it was.
C11_UnknownIgnored ==
  IsSome(lastEvent) /\ ~IsSome(Get(lastEvent).priorElement) =>
    /\ Get(lastEvent).emitted = << >>
    /\ ~Get(lastEvent).threw
    /\ Get(lastEvent).registryKept

\* C12: the step that starts a setCanvasElements call on an existing canvas
\* keeps the background colour; with cleanAndAdd it leaves none of the
\* visual objects that were on the canvas, without it it removes none.  A
\* call with cleanAndAdd and an empty list returns with an empty canvas.
C12_CleanAndAdd ==
  [][\A c \in CallIds :
       /\ ( /\ calls[c].state = "idle"
            /\ calls'[c].state = "running"
            /\ ~calls'[c].single
            => /\ backgroundColor' = backgroundColor
               /\ IF calls'[c].cleanAndAdd
                  THEN objects' = << >>
                  ELSE objects' = objects )
       /\ ( /\ calls[c].state = "running"
            /\ calls'[c].state = "done"
            /\ calls[c].cleanAndAdd
            /\ calls[c].elements = << >>
            /\ calls[c].canvas = twickCanvas
            => objects' = << >> )]_vars

\* a call with cleanAndAdd and an empty list has returned, on a canvas with
\* a background colour where the call before it had projected an element
C12_Witness ==
  \E c \in CallIds \ {1} :
    /\ Finished(c)
    /\ calls[c].cleanAndAdd
    /\ calls[c].elements = << >>
    /\ calls[c].canvas = twickCanvas
    /\ Finished(c - 1)
    /\ calls[c - 1].canvas = twickCanvas
    /\ calls[c - 1].recorded # {}
    /\ backgroundColor = "#000000"
    /\ objects = << >>

\* C13: as long as no canvas exists, every setCanvasElements and every
\* direct addElementToCanvas call has returned at its guard: the canvas has
\* no visual object, the registry (snapshots, frame effects, caption props)
\* is as constructed, no reorder ran and no call was rejected.
C13_NoSurfaceNoOp ==
  twickCanvas = 0 =>
    /\ objects = << >>
    /\ \A id \in ElementIds :
         elementMap[id] = Nothing /\ elementFrameMap[id] = Nothing
    /\ captionPropsRef = Nothing
    /\ \A c \in CallIds :
         calls[c].state # "idle" =>
           /\ calls[c].state = "done"
           /\ calls[c].early
           /\ calls[c].pcs = << >>
           /\ calls[c].reorders = 0
           /\ ~calls[c].rejected

\* a rebuild of a non-empty list and a direct projection were both
\* requested before the canvas existed
C13_Witness ==
  /\ twickCanvas = 0
  /\ \E c, d \in CallIds :
       /\ calls[c].early /\ ~calls[c].single /\ calls[c].elements # << >>
       /\ calls[d].early /\ calls[d].single

\* calls c and d both returned after projecting the same element(s) with the
\* same time, caption props, metadata and options on the same canvas, d
\* without cleanAndAdd
SameProjection(c, d) ==
  /\ Finished(c) /\ Finished(d)
  /\ ~calls[c].rejected /\ ~calls[d].rejected
  /\ calls[c].recorded = DOMAIN calls[c].elements
  /\ calls[d].recorded = DOMAIN calls[d].elements
  /\ calls[d].canvas = calls[c].canvas
  /\ calls[d].elements = calls[c].elements
  /\ calls[d].seekTime = calls[c].seekTime
  /\ calls[d].captionProps = calls[c].captionProps
  /\ calls[d].metadata = calls[c].metadata
  /\ calls[d].videoSize = calls[c].videoSize
  /\ calls[d].single = calls[c].single
  /\ calls[d].reorder = calls[c].reorder
  /\ calls[d].index = calls[c].index
  /\ ~calls[d].cleanAndAdd

C15_AbsentForgotten ==
  \A c \in CallIds :
    /\ Finished(c)
    /\ ~calls[c].single
    /\ \A d \in CallIds : d > c => calls[d].state = "idle"
    => \A id \in ElementIds :
         IsSome(elementMap[id]) \/ IsSome(elementFrameMap[id])
           => id \in ElementIdsOf(calls[c])

\* C16: the step that completes the projection of a video or image element
\* at time t leaves the registry with that element as the snapshot of its
\* identifier and with the element's frame effect active at t (or none) as
\* its active frame effect, whatever the entry held before.
C16_ProjectionRecorded ==
  [][\A c \in CallIds :
       \A i \in DOMAIN calls[c].pcs :
         /\ calls[c].pcs[i] # "done"
         /\ calls'[c].pcs[i] = "done"
         /\ calls[c].elements[i].type \in {"video", "image"}
         => LET element == calls[c].elements[i]
            IN  /\ elementMap'[element.id] = Some(element)
                /\ elementFrameMap'[element.id] =
                     GetCurrentFrameEffect(element, calls[c].seekTime)]_vars

\* C17: the notifications the host has received are those of the events in
\* the order the events arrived: an event has at most one notification (a
\* selection, an element update or a caption broadcast), the event numbers
\* in the log strictly increase, and what the last event emitted is the
\* last entry of the log.
C17_ArrivalOrder ==
  /\ \A j \in DOMAIN notifications :
       /\ notifications[j].event \in 1 .. nGestures
       /\ notifications[j].op \in
            {"ITEM_SELECTED", "ITEM_UPDATED", "CAPTION_PROPS_UPDATED"}
  /\ \A j, k \in DOMAIN notifications :
       j < k => notifications[j].event < notifications[k].event
  /\ IsSome(lastEvent) =>
       LET e == Get(lastEvent)
           n == Len(notifications)
       IN  /\ Len(e.emitted) <= 1
           /\ Len(e.emitted) = 1 =>
                /\ n >= 1
                /\ notifications[n] =
                     [event |-> nGestures, op |-> e.emitted[1].op]
           /\ Len(e.emitted) = 0 =>
                n = 0 \/ notifications[n].event < nGestures

\* two events, each with its notification, of different kinds
C17_Witness ==
  /\ nGestures = 2
  /\ Len(notifications) = 2
  /\ notifications[1].op # notifications[2].op

\* the identity of the visual objects of the canvas, back to front
Stack(objs) ==
  [k \in DOMAIN objs |->
     [oid |-> objs[k].oid, kind |-> objs[k].kind, zIndex |-> objs[k].zIndex]]

\* C18: a step that handles a completed interaction leaves the canvas with
\* the same visual objects in the same stacking order, for every action and
\* every kind of target.
C18_StackKept ==
  [][nGestures' = nGestures + 1 => Stack(objects') = Stack(objects)]_vars

\* a gesture has been reconciled on an element whose visual object has
\* another element's object above it
C18_Witness ==
  /\ IsSome(lastEvent)
  /\ Gestured(Get(lastEvent))
  /\ \E k \in DOMAIN objects :
       /\ k < Len(objects)
       /\ objects[k].oid = Get(lastEvent).oid
       /\ objects[k].kind = Get(lastEvent).kind
       /\ objects[k + 1].oid # objects[k].oid

\* C19: a buildCanvas call given a canvas size whose width or height is not
\* positive has left the canvas, the published metadata, the stored video
\* size and the stored canvas resolution as they were.
C19_BadSizeIsNoOp ==
  IsSome(lastBuild) =>
    ( Get(lastBuild).canvasSize.width <= 0
        \/ Get(lastBuild).canvasSize.height <= 0
      => Get(lastBuild).kept )

\* points of video space for the round trip
Points ==
  { [x |-> a, y |-> b] : a \in { R(-960), R(0), <<1, 3>> },
                         b \in { R(-540), R(10) } }

\* the video-space point an element was projected at
ProjectedAt(element, currentFrameEffect) ==
  IF ObjectKind(element) = "group"
  THEN IF IsSome(currentFrameEffect)
       THEN Get(currentFrameEffect).props.framePosition
       ELSE [x |-> Get(element.frame).x, y |-> Get(element.frame).y]
  ELSE [x |-> element.props.x, y |-> element.props.y]

\* the video-space position in the notification of the last event
ReportedAt(e) ==
  LET n == e.emitted[1]
      u == Get(n.element)
  IN  IF n.op = "CAPTION_PROPS_UPDATED"
      THEN [x |-> Get(n.props).x, y |-> Get(n.props).y]
      ELSE IF e.kind = "group" /\ IsSome(e.priorFrameEffect)
      THEN LET k == CHOOSE j \in DOMAIN u.frameEffects :
                      u.frameEffects[j].id = Get(e.priorFrameEffect).id
           IN  u.frameEffects[k].props.framePosition
      ELSE IF e.kind = "group"
      THEN [x |-> Get(u.frame).x, y |-> Get(u.frame).y]
      ELSE [x |-> u.props.x, y |-> u.props.y]

ZOrdered(objs) ==
  \A j, k \in DOMAIN objs :
    (j < k /\ objs[j].kind # "guide" /\ objs[k].kind # "guide")
      => objs[j].zIndex <= objs[k].zIndex

\* the backdrop of a scene element lies strictly behind its media object
BackdropBehind(objs) ==
  \A j, k \in DOMAIN objs :
    (objs[j].kind = "bg" /\ objs[k].kind # "bg" /\ objs[k].oid = objs[j].oid)
      => j < k

\* the frame guide, if the canvas has one, is the backmost object
GuideAtBack(objs) == \A k \in DOMAIN objs : objs[k].kind = "guide" => k = 1

\* the step in which rebuild c returns on the canvas it was started on
Completes(c) ==
  /\ calls[c].state = "running"
  /\ calls'[c].state = "done"
  /\ ~calls[c].single
  /\ calls[c].canvas = twickCanvas

ProjectDatas == { Nothing, Some("d1"), Some("d2") }

\* the playerId of a twick:playerUpdate event: an instance's id or another
EventPlayerIds == PlayerIds \cup { "other" }

\* setProjectData(projectData): the variables attribute of the player
\* element becomes the project data with the instance's id added
SetProjectData(p, pl, projectData) ==
  IF pl.htmlElement /\ IsSome(projectData)
  THEN [pl EXCEPT !.variables =
          Some([projectData |-> Get(projectData), playerId |-> p])]
  ELSE pl

\* onFirstRender()
OnFirstRender(p, pl) ==
  IF pl.player /\ pl.htmlElement
  THEN SetProjectData(p, pl, pl.projectData)
  ELSE pl

\* playerContainerRef.current?.querySelector("twick-player") || null: the
\* Player is rendered inside the container (lines 279-310), so its element
\* is found while the instance is mounted
QuerySelector(pl) == pl.mounted

\* variant: every player-ready event is taken for the first
IsFirstAlways(pl) == TRUE

\* if (!isFirstRender.current)
IsFirst(pl) == ~pl.isFirstRender

\* handlePlayerReady(player): the Player of instance p reports ready
HandlePlayerReady(p) ==
  /\ players[p].mounted
  /\ LET pl == [players[p] EXCEPT !.player = TRUE,
                                  !.htmlElement = QuerySelector(players[p]),
                                  !.readyEvents = @ + 1]
         set == OnFirstRender(p, pl)
     IN  players' =
           [players EXCEPT ![p] =
              IF IsFirst(pl)
              THEN [set EXCEPT
                      !.isFirstRender = TRUE,
                      !.readyCalls =
                         Append(@, [event |-> pl.readyEvents,
                                    projectData |-> pl.projectData,
                                    variables |-> set.variables])]
              ELSE pl]
  /\ UNCHANGED << hookVars, listeners, forwarded, zoom, manager >>

\* lines 224-226: the projectData prop of instance p changes
ChangeProjectData(p, projectData) ==
  /\ players[p].mounted
  /\ projectData # players[p].projectData
  /\ players' = [players EXCEPT ![p] =
                   SetProjectData(p, [@ EXCEPT !.projectData = projectData],
                                  projectData)]
  /\ UNCHANGED << hookVars, listeners, forwarded, zoom, manager >>

\* window.addEventListener("twick:playerUpdate", handleUpdate): a listener
\* that is registered already is not registered twice
AddEventListener(ls, p) == ls \cup { p }

\* variant: the cleanup removes the listener
CleanupRemoves(ls, p) == ls \ { p }

\* lines 269-276: the cleanup of the listener effect
Cleanup(ls, p) == AddEventListener(ls, p)

\* instance p mounts with a projectData prop: the effects of lines 224-226
\* and 262-268 run
Mount(p, projectData) ==
  /\ ~players[p].mounted /\ ~players[p].unmounted
  /\ players' = [players EXCEPT ![p] =
                   SetProjectData(p, [@ EXCEPT !.mounted = TRUE,
                                               !.projectData = projectData],
                                  projectData)]
  /\ listeners' = AddEventListener(listeners, p)
  /\ UNCHANGED << hookVars, forwarded, zoom, manager >>

\* instance p unmounts: the effect cleanups run
Unmount(p) ==
  /\ players[p].mounted
  /\ players' = [players EXCEPT ![p].mounted = FALSE, ![p].unmounted = TRUE]
  /\ listeners' = Cleanup(listeners, p)
  /\ UNCHANGED << hookVars, forwarded, zoom, manager >>

\* variant: the playerId of the event is not looked at
ForwardsAny(p, playerId) == TRUE

\* handleUpdate(event) of instance p: event.detail.playerId ===
\* playerRef.current.id (the host passes an onPlayerUpdate callback)
Forwards(p, playerId) == playerId = p

\* a twick:playerUpdate event is dispatched on window: every registered
\* listener runs.  The history keeps who listened and whether the receiver
\* had been unmounted.
Dispatch(playerId) ==
  /\ forwarded' = forwarded \cup
       { [to |-> p, playerId |-> playerId, listeners |-> listeners,
          unmounted |-> players[p].unmounted]
         : p \in { l \in listeners : Forwards(l, playerId) } }
  /\ UNCHANGED << hookVars, players, listeners, zoom, manager >>

\* SpecPlayer: LivePlayer instances mount, get project data and ready
\* events, unmount; update events of any player id are dispatched.
PMount == \E p \in PlayerIds, d \in ProjectDatas : Mount(p, d)

PUnmount == \E p \in PlayerIds : Unmount(p)

PData == \E p \in PlayerIds, d \in ProjectDatas : ChangeProjectData(p, d)

PReady ==
  \E p \in PlayerIds : players[p].readyEvents < MaxReady /\ HandlePlayerReady(p)

PDispatch == \E id \in EventPlayerIds : Dispatch(id)

NextPlayer == PMount \/ PUnmount \/ PData \/ PReady \/ PDispatch

SpecPlayer == Init /\ [][NextPlayer]_vars

\* ---------------------------------------------------------------- C22
\* C22: an instance forwards a twick:playerUpdate event to its
\* onPlayerUpdate callback only when the event's playerId is the instance's
\* own id; with several instances listening no event reaches the callback
\* of an instance with another id.
C22_OwnEventsOnly == \A f \in forwarded : f.playerId = f.to

\* an event for p1 was dispatched while p1 and p2 both listened, and it
\* was forwarded to p1
C22_Witness ==
  \E f \in forwarded :
    f.listeners = PlayerIds /\ f.to = "p1" /\ f.playerId = "p1"

C28_ListenerRemoved ==
  /\ \A f \in forwarded : ~f.unmounted
  /\ \A p \in PlayerIds : players[p].unmounted => p \notin listeners

\* ---------------------------------------------------------------- C25
\* C25: after a gesture on a group object whose element has an active frame
\* effect, the active frame effect of the registry agrees with the
\* frameEffects entry of the same id in the element snapshot: same
\* props.framePosition and same props.frameSize.
C25_FrameEffectAgrees ==
  IsSome(lastEvent) /\ Gestured(Get(lastEvent))
    /\ Get(lastEvent).kind = "group"
    /\ Get(Get(lastEvent).priorElement).type # "caption"
    /\ IsSome(Get(lastEvent).priorFrameEffect) =>
    LET e == Get(lastEvent)
        el == Get(e.afterElement)
    IN  /\ IsSome(e.afterFrameEffect)
        /\ \A k \in DOMAIN el.frameEffects :
             el.frameEffects[k].id = Get(e.afterFrameEffect).id =>
               /\ el.frameEffects[k].props.framePosition =
                    Get(e.afterFrameEffect).props.framePosition
               /\ el.frameEffects[k].props.frameSize =
                    Get(e.afterFrameEffect).props.frameSize

\* ------------------------------------------------------------- snap time
\* the start, playback rate and trim time a video element may carry
Starts == { Nothing, Some(R(0)), Some(R(2)) }
PlaybackRates == { Nothing, Some(R(0)), Some(<<1, 2>>), Some(R(2)) }
Times == { Nothing, Some(R(0)), Some(R(3)) }
SeekTimes == { 0, 1, 5 }

\* the scene video with the optional fields given
WithField(rec, name, o) ==
  IF IsSome(o) THEN [n \in { name } |-> Get(o)] @@ rec ELSE rec

VideoWith(s, playbackRate, time) ==
  LET props == WithField(WithField(ElemV1.props, "playbackRate",
                                   playbackRate), "time", time)
  IN  WithField([ElemV1 EXCEPT !.props = props], "s", s)

\* SpecSnap: one canvas, one direct projection of a video element.
SnBuild ==
  /\ nBuilds < 1
  /\ BuildCanvas(HD, HalfHD, TRUE, FALSE, R(1), TRUE, "#000000")

SnAdd ==
  /\ Started < 1
  /\ \E s \in Starts, rate \in PlaybackRates, time \in Times,
        seekTime \in SeekTimes :
       AddElementToCanvas(VideoWith(s, rate, time), 0, TRUE, seekTime, Nothing)

NextSnap == SnBuild \/ SnAdd \/ RMedia \/ RBackground

SpecSnap == Init /\ [][NextSnap]_vars

\* ---------------------------------------------------------------- C24
\* an absent value counts as the fallback
Missing(o, fallback) == IF o = Nothing THEN fallback ELSE Get(o)

\* the projections of video elements that reached addVideoElement
VideoProjections ==
  { ci \in CallIds \X { 1, 2 } :
      /\ calls[ci[1]].state # "idle" /\ ~calls[ci[1]].early
      /\ ci[2] \in DOMAIN calls[ci[1]].elements
      /\ calls[ci[1]].elements[ci[2]].type = "video" }

\* C24 as stated: the snap time handed to the rendering surface for a video
\* projected at t is (t - start) * playbackRate + props.time, where a missing
\* start or props.time counts as 0 and a missing playbackRate as 1.
C24_SnapTimeAsStated ==
  \A ci \in VideoProjections :
    LET call == calls[ci[1]]
        element == call.elements[ci[2]]
    IN  call.snapTime[ci[2]] =
          Some(RAdd(RMul(RSub(R(call.seekTime),
                              Missing(Field(element, "s"), R(0))),
                         Missing(Field(element.props, "playbackRate"), R(1))),
                    Missing(Field(element.props, "time"), R(0))))

\* C24: the snap time handed to the rendering surface for a video projected
\* at t is (t - start) * playbackRate + props.time, where a missing start or
\* props.time counts as 0 and a missing or zero playbackRate counts as 1.
C24_SnapTime ==
  \A ci \in VideoProjections :
    LET call == calls[ci[1]]
        element == call.elements[ci[2]]
        rate == Missing(Field(element.props, "playbackRate"), R(1))
    IN  call.snapTime[ci[2]] =
          Some(RAdd(RMul(RSub(R(call.seekTime),
                              Missing(Field(element, "s"), R(0))),
                         IF rate = R(0) THEN R(1) ELSE rate),
                    Missing(Field(element.props, "time"), R(0))))

\* a video that starts at 2, plays at half speed from trim time 3 was
\* projected at 5: its snap time is (5 - 2) / 2 + 3
C24_Witness ==
  \E ci \in VideoProjections :
    /\ calls[ci[1]].seekTime = 5
    /\ calls[ci[1]].elements[ci[2]] =
         VideoWith(Some(R(2)), Some(<<1, 2>>), Some(R(3)))
    /\ calls[ci[1]].snapTime[ci[2]] = Some(<<9, 2>>)

\* ---------------------------------------------------------------- C26
\* C26: once the projections of a video element have settled, succeeded or
\* failed, the element snapshot and the active frame effect recorded for
\* its identifier stem from the same projection, and an identifier has an
\* active frame effect only if it has a snapshot.
C26_RegistryAtomic ==
  Idle =>
    \A id \in ElementIds :
      /\ IsSome(elementFrameMap[id]) => IsSome(elementMap[id])
      /\ (IsSome(elementMap[id]) /\ Get(elementMap[id]).type = "video") =>
           /\ recordedBy[id] # 0
           /\ elementFrameMap[id] =
                GetCurrentFrameEffect(Get(elementMap[id]),
                                      calls[recordedBy[id]].seekTime)

\* ----------------------------------------------------------- SpecSurface
\* SpecSurface: the host calls buildCanvas again and again, with the same
\* or another size, forced or not, before and after the canvas element
\* exists.
SfBuild ==
  /\ nBuilds < MaxBuilds
  /\ \E v \in VideoSizes, cs \in CanvasSizes, canvasRef \in BOOLEAN,
        forceBuild \in BOOLEAN, guide \in BOOLEAN :
       BuildCanvas(v, cs, canvasRef, forceBuild, R(1), guide, "#000000")

NextSurface == SfBuild

SpecSurface == Init /\ [][NextSurface]_vars

RLess(p, q) == p[1] * q[2] < q[1] * p[2]

\* the zoomConfig props a host passes and the zoom levels it holds
ZoomConfigs == { [min |-> <<1, 2>>, max |-> R(2), step |-> <<1, 2>>],
                 [min |-> R(1), max |-> R(3), step |-> R(1)] }
ZoomLevels == { <<1, 2>>, R(1), <<7, 4>>, R(2), <<5, 2>>, R(3) }

\* the levels within [zoomConfig.min, zoomConfig.max]
Within(zoomConfig) ==
  { z \in ZoomLevels : ~RLess(z, zoomConfig.min) /\ ~RLess(zoomConfig.max, z) }

\* PlayerControls is rendered with a zoomConfig and a zoom level within it
Render(zoomConfig, zoomLevel) ==
  /\ ~zoom.rendered
  /\ zoom' = [zoom EXCEPT !.rendered = TRUE, !.zoomConfig = zoomConfig,
                          !.zoomLevel = zoomLevel]
  /\ UNCHANGED << hookVars, players, listeners, forwarded, manager >>

\* control-manager.tsx lines 46-59: fit mode computes a zoom, clamps it to
\* [zoomConfig.min, zoomConfig.max] and stores it as the zoom level
ApplyFit(z) ==
  /\ zoom.rendered
  /\ z \in Within(zoom.zoomConfig)
  /\ z # zoom.zoomLevel
  /\ zoom' = [zoom EXCEPT !.zoomLevel = z]
  /\ UNCHANGED << hookVars, players, listeners, forwarded, manager >>

\* a press of a zoom button: setZoomLevel is called with a value or not at
\* all; the host stores the value and passes it back as zoomLevel
Pressed(button, value) ==
  [zoom EXCEPT !.zoomLevel = IF IsSome(value) THEN Get(value) ELSE @,
               !.passed = IF IsSome(value) THEN Append(@, Get(value)) ELSE @,
               !.last = Some([button |-> button, from |-> zoom.zoomLevel,
                              value |-> value])]

\* handleZoomIn()
HandleZoomIn ==
  /\ zoom.rendered
  /\ zoom' = Pressed("in",
                     IF RLess(zoom.zoomLevel, zoom.zoomConfig.max)
                     THEN Some(RAdd(zoom.zoomLevel, zoom.zoomConfig.step))
                     ELSE Nothing)
  /\ UNCHANGED << hookVars, players, listeners, forwarded, manager >>

\* handleZoomOut()
HandleZoomOut ==
  /\ zoom.rendered
  /\ zoom' = Pressed("out",
                     IF RLess(zoom.zoomConfig.min, zoom.zoomLevel)
                     THEN Some(RSub(zoom.zoomLevel, zoom.zoomConfig.step))
                     ELSE Nothing)
  /\ UNCHANGED << hookVars, players, listeners, forwarded, manager >>

\* SpecZoom: the controls are rendered, the zoom buttons are pressed, and
\* fit mode sets the level in between.
ZRender == \E c \in ZoomConfigs : \E z \in Within(c) : Render(c, z)

ZFit == Len(zoom.passed) < MaxPresses /\ \E z \in ZoomLevels : ApplyFit(z)

ZoomIn == Len(zoom.passed) < MaxPresses /\ HandleZoomIn

ZoomOut == Len(zoom.passed) < MaxPresses /\ HandleZoomOut

NextZoom == ZRender \/ ZFit \/ ZoomIn \/ ZoomOut

SpecZoom == Init /\ [][NextZoom]_vars

\* ---------------------------------------------------------------- C29
\* C29: starting from a zoom level within [zoomConfig.min, zoomConfig.max],
\* every value a zoom-in or zoom-out press passes to setZoomLevel lies
\* within [zoomConfig.min, zoomConfig.max]; zoom-in at or above the maximum
\* and zoom-out at or below the minimum do not call setZoomLevel.
C29_ZoomWithin ==
  /\ \A k \in DOMAIN zoom.passed :
       /\ ~RLess(zoom.passed[k], zoom.zoomConfig.min)
       /\ ~RLess(zoom.zoomConfig.max, zoom.passed[k])
  /\ IsSome(zoom.last) =>
       LET l == Get(zoom.last)
       IN  /\ (l.button = "in" /\ ~RLess(l.from, zoom.zoomConfig.max))
                => l.value = Nothing
           /\ (l.button = "out" /\ ~RLess(zoom.zoomConfig.min, l.from))
                => l.value = Nothing

\* ----------------------------------------------------------- PlayerManager
\* the durations and times the player reports, in seconds, and the states
\* the host sets
Durations == { 0, 2, 3 }
ReportedTimes == { 0, 1, 2, 3, 4 }
PlayerStates == { "PLAYING", "PAUSED", "REFRESH" }

\* onDurationChange(duration), lines 125-127
OnDurationChange(duration) ==
  /\ manager' = [manager EXCEPT !.durationRef = duration,
                                !.handled = @ + 1]
  /\ UNCHANGED << hookVars, players, listeners, forwarded, zoom >>

\* variant: a time equal to the duration is not taken for the end
AtEndBeyond(duration, time) == duration # 0 /\ time > duration

\* durationRef.current && time >= durationRef.current
AtEnd(duration, time) == duration # 0 /\ time >= duration

\* handleTimeUpdate(time), lines 81-88
HandleTimeUpdate(time) ==
  /\ LET end == AtEnd(manager.durationRef, time)
         currentTime == IF end THEN 0 ELSE time
         playerState == IF end THEN "PAUSED" ELSE manager.playerState
     IN  manager' =
           [manager EXCEPT
              !.currentTime = currentTime,
              !.playerState = playerState,
              !.handled = @ + 1,
              !.last = Some([time |-> time, duration |-> manager.durationRef,
                             stateBefore |-> manager.playerState,
                             currentTime |-> currentTime,
                             playerState |-> playerState])]
  /\ UNCHANGED << hookVars, players, listeners, forwarded, zoom >>

\* the host starts, pauses or refreshes playback (setPlayerState)
SetPlayerState(playerState) ==
  /\ playerState # manager.playerState
  /\ manager' = [manager EXCEPT !.playerState = playerState]
  /\ UNCHANGED << hookVars, players, listeners, forwarded, zoom >>

\* SpecTime: the player reports durations and times in any order while the
\* host changes the player state.
TDuration ==
  /\ manager.handled < MaxUpdates
  /\ \E d \in Durations : d # manager.durationRef /\ OnDurationChange(d)

TUpdate ==
  /\ manager.handled < MaxUpdates
  /\ \E t \in ReportedTimes : HandleTimeUpdate(t)

TState == \E s \in PlayerStates : SetPlayerState(s)

NextTime == TDuration \/ TUpdate \/ TState

SpecTime == Init /\ [][NextTime]_vars

\* ---------------------------------------------------------------- C30
\* what a time update did: at or beyond a known (non-zero) duration the
\* current time became 0 and the state PAUSED; otherwise the current time
\* became the reported time and the state stayed
UpdateAsStated(l) ==
  IF l.duration # 0 /\ l.time >= l.duration
  THEN l.currentTime = 0 /\ l.playerState = "PAUSED"
  ELSE l.currentTime = l.time /\ l.playerState = l.stateBefore

\* C30 as stated: every time update does what UpdateAsStated says, so the
\* current time never holds a value at or beyond a known duration.
C30_TimeBelowDurationAlways ==
  /\ IsSome(manager.last) => UpdateAsStated(Get(manager.last))
  /\ manager.durationRef # 0 => manager.currentTime < manager.durationRef

\* C30: every time update does what UpdateAsStated says, so the current
\* time a time update sets is never at or beyond the duration known at
\* that update.
C30_TimeBelowDuration ==
  IsSome(manager.last) =>
    /\ UpdateAsStated(Get(manager.last))
    /\ Get(manager.last).duration # 0
         => Get(manager.last).currentTime < Get(manager.last).duration

\* while playing with a known duration of 2 the player reported the time 2:
\* the current time is 0 and the player is paused
C30_Witness ==
  /\ IsSome(manager.last)
  /\ Get(manager.last).duration = 2 /\ Get(manager.last).time = 2
  /\ Get(manager.last).stateBefore = "PLAYING"
  /\ manager.currentTime = 0 /\ manager.playerState = "PAUSED"
====
